---------------------------- MODULE Spec2Model ----------------------------
(***************************************************************************)
(* A model of get_wavelet_filter(name, param), the wavelet filter registry *)
(* of 7_declipping/wavelet_impainting/wavelets/wavelets.py.                *)
(*                                                                         *)
(* The function body is a chain of `if` statements without `else`.  Each   *)
(* statement of the body is one definition (Line10 .. Line55) and one      *)
(* step of a call; a call is a frame with its own arguments and locals.    *)
(* Several frames may be live at once, their steps interleaved.            *)
(*                                                                         *)
(* Numbers.  A Python float literal with at most twelve decimals is kept   *)
(* as sign and magnitude in units of 10^-12, the magnitude split in two    *)
(* so that each part fits a 32 bit integer:                                *)
(*     value = (-1)^neg * (mu * 10^6 + pu) * 10^-12                        *)
(* A Python int is kept apart from a float ([0] is a list of one int),     *)
(* and np.array converts it.                                               *)
(***************************************************************************)
EXTENDS Integers, Sequences, FiniteSets, TLC

(***************************************************************************)
(* Bounds of the model.                                                    *)
(***************************************************************************)
\* the frames (calls that may be live at the same time) of SpecConc
NumFrames == 2

\* param is drawn from 0 .. MaxParam in Spec
MaxParam == 21

\* the values of name: the three families the code tests for, and names it
\* does not know (string comparison is case sensitive)
Names == {"Daubechies", "Coiflet", "Symmlet", "Haar", "daubechies"}

Params == 0 .. MaxParam

\* the inputs of the interleaved calls of SpecConc: every family, a name the
\* code does not know, and for each family legal and illegal parameters
ConcNames == {"Daubechies", "Coiflet", "Symmlet", "Haar"}

ConcParams == {2, 4, 5}

Frames == 1 .. NumFrames

(***************************************************************************)
(* Python values.                                                          *)
(***************************************************************************)
PyInt(n) == [ty |-> "int", n |-> n]

Flt(neg, mu, pu) == [ty |-> "float", neg |-> neg, mu |-> mu, pu |-> pu]

\* float(n) of an int n: the magnitude n, in units of 10^-12
AsFloat(x) ==
    IF x.ty = "float" THEN x
    ELSE [ty |-> "float", neg |-> x.n < 0,
          mu |-> (IF x.n < 0 THEN -x.n ELSE x.n) * 1000000, pu |-> 0]

\* a local variable of a frame: unbound, or bound to a value
Unbound == [bound |-> FALSE, val |-> <<>>]

Bound(v) == [bound |-> TRUE, val |-> v]

(***************************************************************************)
(* The list literals of the function body.                                 *)
(***************************************************************************)
\* the list literal of lines 15-15 (4 taps)
TapsDaubechies4 ==
    << Flt(FALSE, 482962, 913145), Flt(FALSE, 836516, 303738),
       Flt(FALSE, 224143, 868042), Flt(TRUE, 129409, 522551) >>

\* the list literal of lines 17-18 (6 taps)
TapsDaubechies6 ==
    << Flt(FALSE, 332670, 552950), Flt(FALSE, 806891, 509311),
       Flt(FALSE, 459877, 502118), Flt(TRUE, 135011, 20010),
       Flt(TRUE, 85441, 273882), Flt(FALSE, 35226, 291882) >>

\* the list literal of lines 20-23 (8 taps)
TapsDaubechies8 ==
    << Flt(FALSE, 230377, 813309), Flt(FALSE, 714846, 570553),
       Flt(FALSE, 630880, 767930), Flt(TRUE, 27983, 769417),
       Flt(TRUE, 187034, 811719), Flt(FALSE, 30841, 381836),
       Flt(FALSE, 32883, 11667), Flt(TRUE, 10597, 401785) >>

\* the list literal of lines 25-27 (10 taps)
TapsDaubechies10 ==
    << Flt(FALSE, 160102, 397974), Flt(FALSE, 603829, 269797),
       Flt(FALSE, 724308, 528438), Flt(FALSE, 138428, 145901),
       Flt(TRUE, 242294, 887066), Flt(TRUE, 32244, 869585),
       Flt(FALSE, 77571, 493840), Flt(TRUE, 6241, 490213),
       Flt(TRUE, 12580, 751999), Flt(FALSE, 3335, 725285) >>

\* the list literal of lines 29-35 (20 taps)
TapsDaubechies20 ==
    << Flt(FALSE, 26670, 57901), Flt(FALSE, 188176, 800078),
       Flt(FALSE, 527201, 188932), Flt(FALSE, 688459, 39454),
       Flt(FALSE, 281172, 343661), Flt(TRUE, 249846, 424327),
       Flt(TRUE, 195946, 274377), Flt(FALSE, 127369, 340336),
       Flt(FALSE, 93057, 364604), Flt(TRUE, 71394, 147166),
       Flt(TRUE, 29457, 536822), Flt(FALSE, 33212, 674059),
       Flt(FALSE, 3606, 553567), Flt(TRUE, 10733, 175483),
       Flt(FALSE, 1395, 351747), Flt(FALSE, 1992, 405295),
       Flt(TRUE, 685, 856695), Flt(TRUE, 116, 466855),
       Flt(FALSE, 93, 588670), Flt(TRUE, 13, 264203) >>

\* the list literal of lines 42-45 (12 taps)
TapsCoiflet2 ==
    << Flt(FALSE, 16387, 336463), Flt(TRUE, 41464, 936782),
       Flt(TRUE, 67372, 554722), Flt(FALSE, 386110, 66823),
       Flt(FALSE, 812723, 635450), Flt(FALSE, 417005, 184424),
       Flt(TRUE, 76488, 599078), Flt(TRUE, 59434, 418646),
       Flt(FALSE, 23680, 171947), Flt(FALSE, 5611, 434819),
       Flt(TRUE, 1823, 208871), Flt(TRUE, 720, 549445) >>

\* the list literal of lines 51-53 (8 taps)
TapsSymmlet4 ==
    << Flt(TRUE, 107148, 901418), Flt(TRUE, 41910, 965125),
       Flt(FALSE, 703739, 68656), Flt(FALSE, 1136658, 243408),
       Flt(FALSE, 421234, 534204), Flt(TRUE, 140317, 624179),
       Flt(TRUE, 17824, 701442), Flt(FALSE, 45570, 345896) >>

(***************************************************************************)
(* The statements of the function body, one definition per statement,      *)
(* named by the line it starts at.  `then` is the line control goes to     *)
(* when the condition holds (the first statement of the block), `else`     *)
(* the line after the block; `next` the line after an assignment.          *)
(***************************************************************************)
IfName(family, then, else) ==
    [op |-> "if_name", family |-> family, then |-> then, else |-> else]

AssignSupported(tuple, next) ==
    [op |-> "assign_supported_params", tuple |-> tuple, next |-> next]

IfParamNotInSupported(then, else) ==
    [op |-> "if_param_not_in", then |-> then, else |-> else]

RaiseTypeError == [op |-> "raise"]

IfParam(k, then, else) ==
    [op |-> "if_param", k |-> k, then |-> then, else |-> else]

AssignF(taps, next) == [op |-> "assign_f", taps |-> taps, next |-> next]

ReturnArray == [op |-> "return"]

Line10 == IfName("Daubechies", 11, 37)

Line11 == AssignSupported(<<4, 6, 8, 10, 20>>, 12)

Line12 == IfParamNotInSupported(13, 14)

Line13 == RaiseTypeError

Line14 == IfParam(4, 15, 16)

Line15 == AssignF(TapsDaubechies4, 16)

Line16 == IfParam(6, 17, 19)

Line17 == AssignF(TapsDaubechies6, 19)

Line19 == IfParam(8, 20, 24)

Line20 == AssignF(TapsDaubechies8, 24)

Line24 == IfParam(10, 25, 28)

Line25 == AssignF(TapsDaubechies10, 28)

Line28 == IfParam(20, 29, 37)

Line29 == AssignF(TapsDaubechies20, 37)

\* line 37 with the family test of line 10 copied
Line37Daubechies == IfName("Daubechies", 38, 46)

Line37 == IfName("Coiflet", 38, 46)

\* line 38 with a parameter of another family let through
Line38AlsoFour == AssignSupported(<<2, 4>>, 39)

Line38 == AssignSupported(<<2>>, 39)

Line39 == IfParamNotInSupported(40, 41)

Line40 == RaiseTypeError

Line41 == IfParam(2, 42, 46)

Line42 == AssignF(TapsCoiflet2, 46)

Line46 == IfName("Symmlet", 47, 55)

Line47 == AssignSupported(<<4>>, 48)

Line48 == IfParamNotInSupported(49, 50)

Line49 == RaiseTypeError

Line50 == IfParam(4, 51, 55)

Line51 == AssignF(TapsSymmlet4, 55)

Line55 == ReturnArray

\* the first statement of the body
FirstLine == 10

CodeLines ==
    {10, 11, 12, 13, 14, 15, 16, 17, 19, 20, 24, 25, 28, 29,
     37, 38, 39, 40, 41, 42, 46, 47, 48, 49, 50, 51, 55}

Stmt(line) ==
    CASE line = 10 -> Line10 [] line = 11 -> Line11 [] line = 12 -> Line12
      [] line = 13 -> Line13 [] line = 14 -> Line14 [] line = 15 -> Line15
      [] line = 16 -> Line16 [] line = 17 -> Line17 [] line = 19 -> Line19
      [] line = 20 -> Line20 [] line = 24 -> Line24 [] line = 25 -> Line25
      [] line = 28 -> Line28 [] line = 29 -> Line29 [] line = 37 -> Line37
      [] line = 38 -> Line38 [] line = 39 -> Line39 [] line = 40 -> Line40
      [] line = 41 -> Line41 [] line = 42 -> Line42 [] line = 46 -> Line46
      [] line = 47 -> Line47 [] line = 48 -> Line48 [] line = 49 -> Line49
      [] line = 50 -> Line50 [] line = 51 -> Line51 [] line = 55 -> Line55

(***************************************************************************)
(* Expressions the statements evaluate.                                    *)
(***************************************************************************)
\* `x in tuple`: some element equals x
TupleContains(tuple, x) == \E i \in 1 .. Len(tuple) : tuple[i] = x

Digit == <<"0", "1", "2", "3", "4", "5", "6", "7", "8", "9">>

\* str(n) of an int n >= 0
RECURSIVE DecStr(_)
DecStr(n) ==
    IF n < 10 THEN Digit[n + 1] ELSE DecStr(n \div 10) \o Digit[(n % 10) + 1]

RECURSIVE JoinRepr(_, _)
JoinRepr(tuple, i) ==
    IF i > Len(tuple) THEN <<>>
    ELSE (IF i = 1 THEN <<>> ELSE <<", ">>) \o <<DecStr(tuple[i])>>
         \o JoinRepr(tuple, i + 1)

\* repr of a tuple of ints, as the sequence of its pieces: "(", the
\* elements separated by ", ", a "," after a lone element, ")"
TupleRepr(tuple) ==
    <<"(">> \o JoinRepr(tuple, 1)
    \o (IF Len(tuple) = 1 THEN <<",">> ELSE <<>>) \o <<")">>

\* the message with the tuple of the first family block written out
ErrorMessageFirstFamily(nm, supported) ==
    <<"Supported params for ", nm, ": ">> \o TupleRepr(<<4, 6, 8, 10, 20>>)

\* f"Supported params for {name}: {supported_params}", as the sequence of
\* its pieces
ErrorMessage(nm, supported) ==
    <<"Supported params for ", nm, ": ">> \o TupleRepr(supported)

\* f + [0]: the zero at the wrong end
FPlusZero(taps) == taps \o <<PyInt(0)>>

\* f alone: the zero forgotten
OnlyF(taps) == taps

\* [0] + f
ZeroPlusF(taps) == <<PyInt(0)>> \o taps

\* np.array(list): a list that holds a float becomes an array of float64,
\* every element converted, the order and the length kept
NpArray(list) ==
    IF \E i \in 1 .. Len(list) : list[i].ty = "float"
    THEN [i \in 1 .. Len(list) |-> AsFloat(list[i])]
    ELSE list

\* the outcomes of a call
NoResult == [kind |-> "none", exc |-> "", by |-> "", msg |-> <<>>, value |-> <<>>]

Returned(array) ==
    [kind |-> "return", exc |-> "", by |-> "", msg |-> <<>>, value |-> array]

\* an exception: `by` is "raise" for a raise statement of the function and
\* "interpreter" for one the interpreter raises while evaluating an expression
Raised(exc, by, msg) ==
    [kind |-> "raise", exc |-> exc, by |-> by, msg |-> msg, value |-> <<>>]

\* a local that starts as an empty list (`f = []` ahead of the tests)
EmptyListLocal == Bound(<<>>)

\* a local of a frame that has just been entered
FreshLocal == Unbound

\* the body run from `line` to its end by one call on its own, with the
\* arguments n and prm and the locals sp (supported_params) and fl (f)
RECURSIVE Run(_, _, _, _, _)
Run(line, n, prm, sp, fl) ==
    LET s == Stmt(line) IN
    CASE s.op = "if_name" ->
           Run(IF n = s.family THEN s.then ELSE s.else, n, prm, sp, fl)
      [] s.op = "assign_supported_params" ->
           Run(s.next, n, prm, Bound(s.tuple), fl)
      [] s.op = "if_param_not_in" ->
           Run(IF ~TupleContains(sp.val, prm) THEN s.then ELSE s.else,
               n, prm, sp, fl)
      [] s.op = "raise" ->
           Raised("TypeError", "raise", ErrorMessage(n, sp.val))
      [] s.op = "if_param" ->
           Run(IF prm = s.k THEN s.then ELSE s.else, n, prm, sp, fl)
      [] s.op = "assign_f" ->
           Run(s.next, n, prm, sp, Bound(s.taps))
      [] s.op = "return" ->
           IF fl.bound THEN Returned(NpArray(ZeroPlusF(fl.val)))
           ELSE Raised("UnboundLocalError", "interpreter", <<"f">>)

\* get_wavelet_filter(n, prm), called on its own
get_wavelet_filter(n, prm) == Run(FirstLine, n, prm, FreshLocal, FreshLocal)

(***************************************************************************)
(* The state: the frames of the calls.                                     *)
(***************************************************************************)
VARIABLES
    status,             \* frame -> "idle", "running", "returned", "raised"
    pc,                 \* frame -> the line the call is at (0: not running)
    name,               \* frame -> the argument name
    param,              \* frame -> the argument param
    supported_params,   \* frame -> the local supported_params
    f,                  \* frame -> the local f
    result,             \* frame -> what the call returned or raised
    trace               \* frame -> the lines the call has executed, in order

vars == <<status, pc, name, param, supported_params, f, result, trace>>

\* locals kept in one place for every call (module level variables)
SharedLocals(p) == 1

\* where the locals a call assigns live: in the call's own frame
LocalsOf(p) == p

Init ==
    /\ status = [p \in Frames |-> "idle"]
    /\ pc = [p \in Frames |-> 0]
    /\ name = [p \in Frames |-> ""]
    /\ param = [p \in Frames |-> 0]
    /\ supported_params = [p \in Frames |-> Unbound]
    /\ f = [p \in Frames |-> Unbound]
    /\ result = [p \in Frames |-> NoResult]
    /\ trace = [p \in Frames |-> <<>>]

At(p, op) == status[p] = "running" /\ Stmt(pc[p]).op = op

Goto(p, line) ==
    /\ pc' = [pc EXCEPT ![p] = line]
    /\ trace' = [trace EXCEPT ![p] = Append(@, pc[p])]

Finish(p, how, outcome) ==
    /\ status' = [status EXCEPT ![p] = how]
    /\ pc' = [pc EXCEPT ![p] = 0]
    /\ trace' = [trace EXCEPT ![p] = Append(@, pc[p])]
    /\ result' = [result EXCEPT ![p] = outcome]

\* get_wavelet_filter(n, prm) is called: a frame not in use is entered
Call(p, n, prm) ==
    /\ status[p] # "running"
    /\ status' = [status EXCEPT ![p] = "running"]
    /\ pc' = [pc EXCEPT ![p] = FirstLine]
    /\ name' = [name EXCEPT ![p] = n]
    /\ param' = [param EXCEPT ![p] = prm]
    /\ supported_params' = [supported_params EXCEPT ![LocalsOf(p)] = FreshLocal]
    /\ f' = [f EXCEPT ![LocalsOf(p)] = FreshLocal]
    /\ result' = [result EXCEPT ![p] = NoResult]
    /\ trace' = [trace EXCEPT ![p] = <<>>]

\* if name == '<family>':
ExecIfName(p) ==
    /\ At(p, "if_name")
    /\ Goto(p, IF name[p] = Stmt(pc[p]).family
               THEN Stmt(pc[p]).then ELSE Stmt(pc[p]).else)
    /\ UNCHANGED <<status, name, param, supported_params, f, result>>

\* supported_params = (...)
ExecAssignSupported(p) ==
    /\ At(p, "assign_supported_params")
    /\ supported_params' =
           [supported_params EXCEPT ![LocalsOf(p)] = Bound(Stmt(pc[p]).tuple)]
    /\ Goto(p, Stmt(pc[p]).next)
    /\ UNCHANGED <<status, name, param, f, result>>

\* if param not in supported_params:
ExecIfParamNotIn(p) ==
    /\ At(p, "if_param_not_in")
    /\ Goto(p, IF ~TupleContains(supported_params[LocalsOf(p)].val, param[p])
               THEN Stmt(pc[p]).then ELSE Stmt(pc[p]).else)
    /\ UNCHANGED <<status, name, param, supported_params, f, result>>

\* raise TypeError(f"Supported params for {name}: {supported_params}")
ExecRaise(p) ==
    /\ At(p, "raise")
    /\ Finish(p, "raised",
              Raised("TypeError", "raise",
                     ErrorMessage(name[p], supported_params[LocalsOf(p)].val)))
    /\ UNCHANGED <<name, param, supported_params, f>>

\* if param == <k>:
ExecIfParam(p) ==
    /\ At(p, "if_param")
    /\ Goto(p, IF param[p] = Stmt(pc[p]).k
               THEN Stmt(pc[p]).then ELSE Stmt(pc[p]).else)
    /\ UNCHANGED <<status, name, param, supported_params, f, result>>

\* f = [...] with f a module level variable, the same for every call
ExecAssignGlobalF(p) ==
    /\ At(p, "assign_f")
    /\ f' = [q \in Frames |-> Bound(Stmt(pc[p]).taps)]
    /\ Goto(p, Stmt(pc[p]).next)
    /\ UNCHANGED <<status, name, param, supported_params, result>>

\* f = [...]
ExecAssignF(p) ==
    /\ At(p, "assign_f")
    /\ f' = [f EXCEPT ![LocalsOf(p)] = Bound(Stmt(pc[p]).taps)]
    /\ Goto(p, Stmt(pc[p]).next)
    /\ UNCHANGED <<status, name, param, supported_params, result>>

\* return np.array([0] + f): reading f while it is unbound raises
\* UnboundLocalError (its text, which differs between Python versions, is
\* kept as the variable's name)
ExecReturn(p) ==
    /\ At(p, "return")
    /\ IF f[LocalsOf(p)].bound
       THEN Finish(p, "returned",
                   Returned(NpArray(ZeroPlusF(f[LocalsOf(p)].val))))
       ELSE Finish(p, "raised",
                   Raised("UnboundLocalError", "interpreter", <<"f">>))
    /\ UNCHANGED <<name, param, supported_params, f>>

Step(p) ==
    \/ ExecIfName(p)
    \/ ExecAssignSupported(p)
    \/ ExecIfParamNotIn(p)
    \/ ExecRaise(p)
    \/ ExecIfParam(p)
    \/ ExecAssignF(p)
    \/ ExecReturn(p)

\* one call at a time, over every name and every parameter of the bounds
Next ==
    \/ \E n \in Names, prm \in Params : Call(1, n, prm)
    \/ Step(1)

Spec == Init /\ [][Next]_vars

\* a call that has started keeps executing its statements
FairSpec == Spec /\ WF_vars(Step(1))

\* calls in every frame, their statements interleaved
NextConc ==
    \/ \E p \in Frames, n \in ConcNames, prm \in ConcParams : Call(p, n, prm)
    \/ \E p \in Frames : Step(p)

SpecConc == Init /\ [][NextConc]_vars

(***************************************************************************)
(* What the specification states: the families, the legal parameters of    *)
(* each, and the table of taps of section 4.1, row by row.                 *)
(***************************************************************************)
SpecFamilies == {"Daubechies", "Coiflet", "Symmlet"}

SpecLegal(family) ==
    CASE family = "Daubechies" -> {4, 6, 8, 10, 20}
      [] family = "Coiflet" -> {2}
      [] family = "Symmlet" -> {4}

SpecSupported(family, parameter) ==
    family \in SpecFamilies /\ parameter \in SpecLegal(family)

\* Daubechies / 4, tap count 4
TableDaubechies4 ==
    << Flt(FALSE, 482962, 913145), Flt(FALSE, 836516, 303738),
       Flt(FALSE, 224143, 868042), Flt(TRUE, 129409, 522551) >>

\* Daubechies / 6, tap count 6
TableDaubechies6 ==
    << Flt(FALSE, 332670, 552950), Flt(FALSE, 806891, 509311),
       Flt(FALSE, 459877, 502118), Flt(TRUE, 135011, 20010),
       Flt(TRUE, 85441, 273882), Flt(FALSE, 35226, 291882) >>

\* Daubechies / 8, tap count 8
TableDaubechies8 ==
    << Flt(FALSE, 230377, 813309), Flt(FALSE, 714846, 570553),
       Flt(FALSE, 630880, 767930), Flt(TRUE, 27983, 769417),
       Flt(TRUE, 187034, 811719), Flt(FALSE, 30841, 381836),
       Flt(FALSE, 32883, 11667), Flt(TRUE, 10597, 401785) >>

\* Daubechies / 10, tap count 10
TableDaubechies10 ==
    << Flt(FALSE, 160102, 397974), Flt(FALSE, 603829, 269797),
       Flt(FALSE, 724308, 528438), Flt(FALSE, 138428, 145901),
       Flt(TRUE, 242294, 887066), Flt(TRUE, 32244, 869585),
       Flt(FALSE, 77571, 493840), Flt(TRUE, 6241, 490213),
       Flt(TRUE, 12580, 751999), Flt(FALSE, 3335, 725285) >>

\* Daubechies / 20, tap count 20
TableDaubechies20 ==
    << Flt(FALSE, 26670, 57901), Flt(FALSE, 188176, 800078),
       Flt(FALSE, 527201, 188932), Flt(FALSE, 688459, 39454),
       Flt(FALSE, 281172, 343661), Flt(TRUE, 249846, 424327),
       Flt(TRUE, 195946, 274377), Flt(FALSE, 127369, 340336),
       Flt(FALSE, 93057, 364604), Flt(TRUE, 71394, 147166),
       Flt(TRUE, 29457, 536822), Flt(FALSE, 33212, 674059),
       Flt(FALSE, 3606, 553567), Flt(TRUE, 10733, 175483),
       Flt(FALSE, 1395, 351747), Flt(FALSE, 1992, 405295),
       Flt(TRUE, 685, 856695), Flt(TRUE, 116, 466855),
       Flt(FALSE, 93, 588670), Flt(TRUE, 13, 264203) >>

\* Coiflet / 2, tap count 12
TableCoiflet2 ==
    << Flt(FALSE, 16387, 336463), Flt(TRUE, 41464, 936782),
       Flt(TRUE, 67372, 554722), Flt(FALSE, 386110, 66823),
       Flt(FALSE, 812723, 635450), Flt(FALSE, 417005, 184424),
       Flt(TRUE, 76488, 599078), Flt(TRUE, 59434, 418646),
       Flt(FALSE, 23680, 171947), Flt(FALSE, 5611, 434819),
       Flt(TRUE, 1823, 208871), Flt(TRUE, 720, 549445) >>

\* Symmlet / 4, tap count 8
TableSymmlet4 ==
    << Flt(TRUE, 107148, 901418), Flt(TRUE, 41910, 965125),
       Flt(FALSE, 703739, 68656), Flt(FALSE, 1136658, 243408),
       Flt(FALSE, 421234, 534204), Flt(TRUE, 140317, 624179),
       Flt(TRUE, 17824, 701442), Flt(FALSE, 45570, 345896) >>

SpecTable(family, parameter) ==
    CASE family = "Daubechies" /\ parameter = 4 -> TableDaubechies4
      [] family = "Daubechies" /\ parameter = 6 -> TableDaubechies6
      [] family = "Daubechies" /\ parameter = 8 -> TableDaubechies8
      [] family = "Daubechies" /\ parameter = 10 -> TableDaubechies10
      [] family = "Daubechies" /\ parameter = 20 -> TableDaubechies20
      [] family = "Coiflet" /\ parameter = 2 -> TableCoiflet2
      [] family = "Symmlet" /\ parameter = 4 -> TableSymmlet4

\* the column "Tap count" of the table
SpecTapCount(family, parameter) ==
    CASE family = "Daubechies" /\ parameter = 4 -> 4
      [] family = "Daubechies" /\ parameter = 6 -> 6
      [] family = "Daubechies" /\ parameter = 8 -> 8
      [] family = "Daubechies" /\ parameter = 10 -> 10
      [] family = "Daubechies" /\ parameter = 20 -> 20
      [] family = "Coiflet" /\ parameter = 2 -> 12
      [] family = "Symmlet" /\ parameter = 4 -> 8

(***************************************************************************)
(* Notions the properties use.                                             *)
(***************************************************************************)
Terminal(p) == status[p] \in {"returned", "raised"}

\* the positions of a trace at which a statement of kind op was executed
Executed(tr, op) == {i \in 1 .. Len(tr) : Stmt(tr[i]).op = op}

\* the line executed after position i of the trace of frame p
After(p, i) ==
    IF i < Len(trace[p]) THEN trace[p][i + 1] ELSE pc[p]

\* the positions at which a condition was found true, so that its block
\* was entered
Entered(p, op) ==
    {i \in Executed(trace[p], op) : After(p, i) = Stmt(trace[p][i]).then}

\* the positions at which the check of a family block was passed
ChecksPassed(p) ==
    {i \in Executed(trace[p], "if_param_not_in") :
        After(p, i) = Stmt(trace[p][i]).else}

\* the family block a line belongs to: the `if name ==` line that opens it
BlockOf(line) ==
    CHOOSE b \in {l \in CodeLines : Stmt(l).op = "if_name"} :
        /\ b <= line
        /\ \A c \in {l \in CodeLines : Stmt(l).op = "if_name"} :
               c <= line => c <= b

\* the numbers a message lists
NumbersListed(msg) ==
    {k \in Params : \E i \in 1 .. Len(msg) : msg[i] = DecStr(k)}

UnsupportedParameter(p) ==
    status[p] = "raised" /\ result[p].exc = "TypeError"

(***************************************************************************)
(* The properties.                                                         *)
(***************************************************************************)

\* C1: a call with one of the seven supported pairs returns a vector whose
\* first element is the float 0.0 and whose remaining elements are the taps
\* the table lists for the pair, in the table's order, value for value.
C1_ReturnsZeroThenListedTaps ==
    \A p \in Frames :
        Terminal(p) /\ SpecSupported(name[p], param[p]) =>
            /\ result[p].kind = "return"
            /\ Len(result[p].value) >= 1
            /\ result[p].value[1] = Flt(FALSE, 0, 0)
            /\ Tail(result[p].value) = SpecTable(name[p], param[p])

C1_Witness ==
    /\ status[1] = "returned"
    /\ name[1] = "Symmlet" /\ param[1] = 4
    /\ Len(result[1].value) = 9

\* C2: a call whose family is none of the three ends in an error that a
\* raise statement of the function itself raised, and returns no vector.
C2_UnrecognizedFamilyRaisedByRegistry ==
    \A p \in Frames :
        Terminal(p) /\ name[p] \notin SpecFamilies =>
            /\ result[p].kind = "raise"
            /\ result[p].by = "raise"

\* C3: a call with a known family and a parameter outside that family's
\* legal set (one legal for another family included) ends in the
\* unsupported-parameter error (TypeError) and returns no value.
C3_IllegalParameterRaises ==
    \A p \in Frames :
        Terminal(p) /\ name[p] \in SpecFamilies
                    /\ param[p] \notin SpecLegal(name[p]) =>
            /\ result[p].kind = "raise"
            /\ result[p].exc = "TypeError"
            /\ result[p].by = "raise"
            /\ result[p].value = <<>>

C3_Witness ==
    /\ status[1] = "raised"
    /\ name[1] = "Coiflet" /\ param[1] = 4
    /\ result[1].exc = "TypeError"

\* C4: for a supported pair the returned vector is one longer than the
\* pair's tap count.
C4_LengthIsTapCountPlusOne ==
    \A p \in Frames :
        Terminal(p) /\ SpecSupported(name[p], param[p]) =>
            /\ result[p].kind = "return"
            /\ Len(result[p].value) = SpecTapCount(name[p], param[p]) + 1

C4_Witness ==
    /\ status[1] = "returned"
    /\ name[1] = "Coiflet" /\ param[1] = 2
    /\ Len(result[1].value) = 13

\* C5: the message of the unsupported-parameter error names the family that
\* was passed and lists exactly the legal parameters of that family.
C5_MessageNamesFamilyAndItsParameters ==
    \A p \in Frames :
        UnsupportedParameter(p) =>
            /\ name[p] \in SpecFamilies
            /\ \E i \in 1 .. Len(result[p].msg) : result[p].msg[i] = name[p]
            /\ \A fam \in SpecFamilies \ {name[p]} :
                   \A i \in 1 .. Len(result[p].msg) : result[p].msg[i] # fam
            /\ NumbersListed(result[p].msg) = SpecLegal(name[p])

C5_Witness ==
    /\ UnsupportedParameter(1)
    /\ name[1] = "Symmlet" /\ param[1] = 2
    /\ NumbersListed(result[1].msg) = {4}

\* C6: two calls with the same arguments have the same outcome, whatever
\* was called before them and however their steps were interleaved.
C6_SameArgumentsSameOutcome ==
    \A p, q \in Frames :
        /\ Terminal(p) /\ Terminal(q)
        /\ name[p] = name[q] /\ param[p] = param[q]
        => result[p] = result[q]

C6_Witness ==
    \E p, q \in Frames :
        /\ p # q
        /\ status[p] = "returned" /\ status[q] = "returned"
        /\ name[p] = "Daubechies" /\ name[q] = "Daubechies"
        /\ param[p] = 4 /\ param[q] = 4

\* a frame that took no step kept its arguments, its locals and its result
OnlyOwnFrameChanges ==
    \A q \in Frames :
        status'[q] = status[q] /\ pc'[q] = pc[q] =>
            /\ name'[q] = name[q] /\ param'[q] = param[q]
            /\ supported_params'[q] = supported_params[q]
            /\ f'[q] = f[q]
            /\ result'[q] = result[q]
            /\ trace'[q] = trace[q]

\* C7: under any interleaving every call ends as the same call run on its
\* own ends, and a step of one call changes nothing of another call.
C7_InterleavedCallsAsAlone ==
    /\ [](\A p \in Frames :
             Terminal(p) => result[p] = get_wavelet_filter(name[p], param[p]))
    /\ [][OnlyOwnFrameChanges]_vars

C7_Witness ==
    \E p, q \in Frames :
        /\ status[p] = "running" /\ f[p].bound /\ name[p] = "Daubechies"
        /\ status[q] = "running" /\ f[q].bound /\ name[q] = "Symmlet"

\* C8: a call returns a value exactly when its pair is one of the seven
\* supported pairs, a returned value comes from exactly one tap list, and
\* every other call ends in an error.
C8_ReturnsIffSupported ==
    \A p \in Frames :
        Terminal(p) =>
            /\ result[p].kind = "return" <=> SpecSupported(name[p], param[p])
            /\ result[p].kind = "return" =>
                   Cardinality(Executed(trace[p], "assign_f")) = 1
            /\ ~SpecSupported(name[p], param[p]) => result[p].kind = "raise"

C8_Witness ==
    /\ status[1] = "raised"
    /\ name[1] = "Haar"
    /\ result[1].kind = "raise"

\* C9: a call that is at the return statement has assigned f exactly once,
\* and no call enters more than one family block or more than one
\* parameter branch.
C9_AssignedExactlyOnceAtReturn ==
    \A p \in Frames :
        /\ At(p, "return") =>
               Cardinality(Executed(trace[p], "assign_f")) = 1
        /\ Cardinality(Entered(p, "if_name")) <= 1
        /\ Cardinality(Entered(p, "if_param")) <= 1
        /\ Cardinality(Executed(trace[p], "assign_f")) <= 1

\* every tap list of the trace of p was selected after the parameter check
\* of its own family block
CheckBeforeSelection(p) ==
    \A j \in Executed(trace[p], "assign_f") :
        \E i \in Executed(trace[p], "if_param_not_in") :
            i < j /\ BlockOf(trace[p][i]) = BlockOf(trace[p][j])

\* C10: the parameter check of a block runs before a tap list is selected,
\* a call that raises the unsupported-parameter error has not assigned f
\* and has passed no block's check, and every call that has started ends,
\* returned or raised.
C10_CheckFirstAndTermination ==
    /\ [](\A p \in Frames :
             /\ CheckBeforeSelection(p)
             /\ UnsupportedParameter(p) =>
                    /\ ~f[p].bound
                    /\ Executed(trace[p], "assign_f") = {}
                    /\ ChecksPassed(p) = {})
    /\ \A p \in Frames : status[p] = "running" ~> Terminal(p)

C10_Witness ==
    /\ UnsupportedParameter(1)
    /\ name[1] = "Symmlet" /\ param[1] = 6
    /\ ~f[1].bound

=============================================================================
